---- MODULE Spec2Model ----
(***************************************************************************)
(* A model of cdir's interactive browser: the SQLite-backed store          *)
(* (store.rs), the windowed result cache DataViewModel (model.rs), the     *)
(* keyboard-driven TableView (tableview.rs) and the Gui router (gui.rs).   *)
(*                                                                         *)
(* Strings are sequences of one-character strings.  Option<T> is a record  *)
(* [some, v].  A Rust panic (arithmetic overflow, slice index out of       *)
(* range) aborts the process: it sets `panicked` and nothing runs after.   *)
(***************************************************************************)
EXTENDS Integers, Sequences, FiniteSets, TLC

VARIABLES
    paths,         \* store.rs: rows of table `paths`, in rowid order
    paths_seq,     \* store.rs: last AUTOINCREMENT id handed out for `paths`
    shortcuts,     \* store.rs: rows of table `shortcuts`, in rowid order
    shortcuts_seq, \* store.rs: last AUTOINCREMENT id handed out for `shortcuts`
    history_view,  \* gui.rs Gui.history_view: a TableView over list_paths
    shortcut_view, \* gui.rs Gui.shortcut_view: a TableView over list_shortcuts
    current_view,  \* gui.rs Gui.current_view
    view_state,    \* gui.rs: the Rc<RefCell<bool>> shared by both views
    height,        \* height of the terminal frame (frame.area().height)
    running,       \* whether a TableView::run loop has been entered
    result,        \* what Gui::run returned: Option of GuiResult
    panicked,      \* the process aborted on a panic
    last,          \* history: the last operation, its arguments and outcome
    hist           \* history: what has happened since the start

vars == <<paths, paths_seq, shortcuts, shortcuts_seq, history_view, shortcut_view,
          current_view, view_state, height, running, result, panicked, last, hist>>

storeVars == <<paths, paths_seq, shortcuts, shortcuts_seq>>
guiVars == <<shortcut_view, current_view, view_state, height, running, result, hist>>

----------------------------------------------------------------------------
(* Bounds of the model *)

\* largest `first` an update request of the cache harness asks for
MaxFirst == 3
\* largest `length` an update request of the cache harness asks for
MaxLen == 3

\* most rows the table shows (the frame is at most MaxRows + 2 lines high)
MaxRows == 2
\* longest search string typed
MaxSearch == 1
\* how many rows below u16::MAX a wrapped selection is followed
MaxWrapSteps == 1
\* most rows the store harness inserts into `paths`
MaxAdds == 4
\* largest `pos` and `len` the store harness lists with
MaxPos == 2
\* most rows the formatter harness inserts into `shortcuts`
MaxShortcuts == 3

----------------------------------------------------------------------------
(* Option and strings *)

Some(x) == [some |-> TRUE, v |-> x]
NoneSeq == [some |-> FALSE, v |-> <<>>]
NoneNat == [some |-> FALSE, v |-> 0]

Min(a, b) == IF a <= b THEN a ELSE b
Max(a, b) == IF a >= b THEN a ELSE b

\* Rust's s[from..to] on a Vec: elements from (0-based) up to to, exclusive
Slice(s, from, to) == SubSeq(s, from + 1, to)

\* SQLite's LIKE folds ASCII case
Lower(c) == IF c = "A" THEN "a" ELSE IF c = "B" THEN "b" ELSE c

\* path like '%' || text || '%' over an alphabet without the wildcards % and _
Like(s, text) ==
    \E i \in 0..(Len(s) - Len(text)) :
        \A j \in 1..Len(text) : Lower(s[i + j]) = Lower(text[j])

----------------------------------------------------------------------------
(* store.rs *)

FirstByDateDesc_id_asc(S) ==
    CHOOSE r \in S : \A o \in S :
        (r.date > o.date) \/ (r.date = o.date /\ r.id <= o.id)

\* the row that ORDER BY date desc, id desc puts first
FirstByDateDesc(S) ==
    CHOOSE r \in S : \A o \in S :
        (r.date > o.date) \/ (r.date = o.date /\ r.id >= o.id)

RECURSIVE OrderByDateDesc(_)
OrderByDateDesc(S) ==
    IF S = {} THEN <<>>
    ELSE LET r == FirstByDateDesc(S) IN <<r>> \o OrderByDateDesc(S \ {r})

Rows(table) == {table[i] : i \in 1..Len(table)}

\* LIMIT len OFFSET pos
LimitOffset(s, len, pos) == Slice(s, Min(pos, Len(s)), Min(pos + len, Len(s)))

list_paths(pos, len, like_text) ==
    LET matching == IF like_text # <<>>
                    THEN {r \in Rows(paths) : Like(r.path, like_text)}
                    ELSE Rows(paths)
    IN  LimitOffset(OrderByDateDesc(matching), len, pos)

list_all_paths == OrderByDateDesc(Rows(paths))

add_path_with_time_rows_without_delete(path, epoc) ==
    Append(paths, [id |-> paths_seq + 1, path |-> path, date |-> epoc])

\* the table after DELETE FROM paths WHERE path=(?1); INSERT INTO paths (path, date)
add_path_with_time_rows(path, epoc) ==
    Append(SelectSeq(paths, LAMBDA r : r.path # path),
           [id |-> paths_seq + 1, path |-> path, date |-> epoc])

\* the table after the DELETE when the INSERT then fails: the statements are
\* not in one transaction
add_path_with_time_insert_failed_rows(path) ==
    SelectSeq(paths, LAMBDA r : r.path # path)

add_path_with_time(path, epoc) ==
    /\ paths' = add_path_with_time_rows(path, epoc)
    /\ paths_seq' = paths_seq + 1

delete_path_by_id_rows(id) == SelectSeq(paths, LAMBDA r : r.id # id)

delete_path_by_id(id) ==
    /\ paths' = delete_path_by_id_rows(id)
    /\ paths_seq' = paths_seq

\* SQLite's BINARY collation orders strings by their bytes
Byte(c) == IF c = "A" THEN 65 ELSE IF c = "B" THEN 66 ELSE IF c = "a" THEN 97
           ELSE IF c = "b" THEN 98 ELSE 113

StrLess(s, t) ==
    \E i \in 1..Len(t) :
        /\ \A j \in 1..(i - 1) : j <= Len(s) /\ s[j] = t[j]
        /\ i > Len(s) \/ (s[i] # t[i] /\ Byte(s[i]) < Byte(t[i]))

\* the row that ORDER BY name asc, id desc puts first
FirstByNameAsc(S) ==
    CHOOSE r \in S : \A o \in S :
        StrLess(r.name, o.name) \/ (r.name = o.name /\ r.id >= o.id)

RECURSIVE OrderByNameAsc(_)
OrderByNameAsc(S) ==
    IF S = {} THEN <<>>
    ELSE <<FirstByNameAsc(S)>> \o OrderByNameAsc(S \ {FirstByNameAsc(S)})

list_shortcuts(pos, len, like_text) ==
    LimitOffset(OrderByNameAsc(IF like_text # <<>>
                               THEN {r \in Rows(shortcuts) :
                                       Like(r.path, like_text) \/ Like(r.name, like_text)}
                               ELSE Rows(shortcuts)),
                len, pos)

list_all_shortcuts == OrderByNameAsc(Rows(shortcuts))

\* the table after DELETE FROM shortcuts WHERE name=(?1); INSERT INTO shortcuts
add_shortcut_rows(name, path) ==
    Append(SelectSeq(shortcuts, LAMBDA r : r.name # name),
           [id |-> shortcuts_seq + 1, name |-> name, path |-> path])

add_shortcut(name, path) ==
    /\ shortcuts' = add_shortcut_rows(name, path)
    /\ shortcuts_seq' = shortcuts_seq + 1

----------------------------------------------------------------------------
(* model.rs: DataViewModel *)

\* The ListFunction a view was built with (gui.rs): a closure over the store.
\* `fail` is whether this call ends in a rusqlite::Error.
list_fn(view, fail, first, length, text) ==
    IF fail THEN [ok |-> FALSE, v |-> <<>>]
    ELSE IF view = "History" THEN [ok |-> TRUE, v |-> list_paths(first, length, text)]
    ELSE [ok |-> TRUE, v |-> list_shortcuts(first, length, text)]

DataViewModel_new == [entries |-> NoneSeq, first |-> 0, length |-> 0, filter |-> <<>>]

is_a_subset_of_any_filter(dm, first, length, text) ==
    /\ dm.entries.some
    /\ first >= dm.first
    /\ first + length <= dm.first + dm.length

is_a_subset_of_strict_first(dm, first, length, text) ==
    /\ dm.entries.some
    /\ first > dm.first
    /\ first + length <= dm.first + dm.length
    /\ dm.filter = text

is_a_subset_of(dm, first, length, text) ==
    /\ dm.entries.some
    /\ first >= dm.first
    /\ first + length <= dm.first + dm.length
    /\ dm.filter = text

update_into_subset_keeps_length(dm, first, length, text) ==
    IF ~is_a_subset_of(dm, first, length, text)
    THEN [dm |-> dm, ret |-> FALSE, panic |-> FALSE]
    ELSE LET offset == dm.first - first IN
         IF offset < 0 \/ offset > length \/ length > Len(dm.entries.v)
         THEN [dm |-> dm, ret |-> FALSE, panic |-> TRUE]
         ELSE [dm |-> [dm EXCEPT !.entries = Some(Slice(dm.entries.v, offset, length)),
                                 !.first = first],
               ret |-> TRUE, panic |-> FALSE]

\* [dm, ret, panic].  `self.first - first` is a usize subtraction: it panics
\* in a debug build and wraps in a release build, where the slice
\* self_entries[offset..length] then panics for offset > length.
update_into_subset(dm, first, length, text) ==
    IF ~is_a_subset_of(dm, first, length, text)
    THEN [dm |-> dm, ret |-> FALSE, panic |-> FALSE]
    ELSE LET offset == dm.first - first IN
         IF offset < 0 \/ offset > length \/ length > Len(dm.entries.v)
         THEN [dm |-> dm, ret |-> FALSE, panic |-> TRUE]
         ELSE [dm |-> [dm EXCEPT !.entries = Some(Slice(dm.entries.v, offset, length)),
                                 !.first = first,
                                 !.length = length],
               ret |-> TRUE, panic |-> FALSE]

short_page_covered_only_empty(dm, first, length, new_length, text) ==
    new_length = 0 /\ new_length # length /\ is_a_subset_of(dm, first, new_length, text)

short_page_never_covered(dm, first, length, new_length, text) == FALSE

\* the store returned another number of rows than asked for, and the cache
\* already holds them
short_page_covered(dm, first, length, new_length, text) ==
    new_length # length /\ is_a_subset_of(dm, first, new_length, text)

accept_page_at_top(first, new_entries, text) ==
    [entries |-> Some(new_entries), first |-> 0,
     length |-> Len(new_entries), filter |-> text]

\* the cache after a page of at least one row is taken over
accept_page(first, new_entries, text) ==
    [entries |-> Some(new_entries), first |-> first,
     length |-> Len(new_entries), filter |-> text]

forced_clear_keeps_first(dm) == [dm EXCEPT !.entries = NoneSeq, !.length = 0]

\* the cache after a forced update found no row
forced_clear(dm) == [dm EXCEPT !.entries = NoneSeq, !.first = 0, !.length = 0]

store_failed_clears(dm) == [dm EXCEPT !.entries = NoneSeq, !.first = 0, !.length = 0]

\* the cache after the ListFunction returned an error
store_failed(dm) == dm

\* [dm, ret, calls, panic, res]: the cache afterwards, the value returned, the
\* ListFunction calls made, whether it panicked, and the ListFunction's answer.
update(dm, first, length, text, force, view, fail) ==
    LET sub == update_into_subset(dm, first, length, text)
        none == [ok |-> FALSE, v |-> <<>>]
    IN
    IF sub.panic
    THEN [dm |-> dm, ret |-> FALSE, calls |-> <<>>, panic |-> TRUE, res |-> none]
    ELSE IF sub.ret
    THEN [dm |-> sub.dm, ret |-> FALSE, calls |-> <<>>, panic |-> FALSE, res |-> none]
    ELSE
    LET new_entries == list_fn(view, fail, first, length, text)
        calls == <<[first |-> first, length |-> length, text |-> text]>>
        out(d, r) == [dm |-> d, ret |-> r, calls |-> calls, panic |-> FALSE,
                      res |-> new_entries]
        new_length == Len(new_entries.v)
    IN
    IF ~new_entries.ok THEN out(store_failed(dm), FALSE)
    ELSE IF short_page_covered(dm, first, length, new_length, text) THEN out(dm, FALSE)
    ELSE IF new_length > 0 THEN out(accept_page(first, new_entries.v, text), TRUE)
    ELSE IF force THEN out(forced_clear(dm), TRUE)
    ELSE out(dm, FALSE)

offset_first_negative_offset(dm, offset) == IF offset < 0 THEN 0 ELSE dm.first + offset

\* the start position update_to_offset asks for
offset_first(dm, offset) == IF dm.first + offset < 0 THEN 0 ELSE dm.first + offset

update_to_offset(dm, offset, length, text, view, fail) ==
    update(dm, offset_first(dm, offset), length, text, FALSE, view, fail)

----------------------------------------------------------------------------
(* tableview.rs: TableView.  A TableView is a record [data_model, selected, *)
(* table_rows_count, search_string]; `selected` is table_state's selected   *)
(* row.  run() selects column 0 before anything else and nothing unselects  *)
(* it, so selected_cell() is Some exactly when a row is selected.           *)
(* The operators return [tv, ucalls, calls, failed, panic]: the view        *)
(* afterwards, the calls made to the cache (update / update_to_offset), the *)
(* ListFunction calls made, whether one of them returned an error, and      *)
(* whether the process panicked.                                            *)

TABLE_HEADER_LENGTH == 1
JUMP_OFFSET == 10
\* u16::MAX, what 0u16 - 1 wraps to in a release build
U16_MAX == 65535

TableView_new ==
    [data_model |-> DataViewModel_new,
     selected |-> NoneNat,          \* table_state: TableState::default()
     table_rows_count |-> 0,
     search_string |-> <<>>]

NoResult == [kind |-> "None", v |-> <<>>]
NoHistory == [failed |-> FALSE]

Done(tv) ==
    [tv |-> tv, ucalls |-> <<>>, calls |-> <<>>, failed |-> FALSE, panic |-> FALSE]
\* the process died: the view is left as it was
Panicked(tv) ==
    [tv |-> tv, ucalls |-> <<>>, calls |-> <<>>, failed |-> FALSE, panic |-> TRUE]

\* the view once its cache has made the update `u`, called as `ucall`
tv_updated(tv, u, ucall) ==
    [tv |-> [tv EXCEPT !.data_model = u.dm], ucalls |-> <<ucall>>, calls |-> u.calls,
     failed |-> (u.calls # <<>> /\ ~u.res.ok), panic |-> u.panic]

\* self.data_model.update(...)
tv_update(tv, first, length, text, force, view, fail) ==
    tv_updated(tv, update(tv.data_model, first, length, text, force, view, fail),
               [op |-> "update", first |-> first, offset |-> 0, length |-> length,
                text |-> text, force |-> force])

\* self.data_model.update_to_offset(...)
tv_update_to_offset(tv, offset, length, text, view, fail) ==
    tv_updated(tv, update_to_offset(tv.data_model, offset, length, text, view, fail),
               [op |-> "update_to_offset", first |-> 0, offset |-> offset,
                length |-> length, text |-> text, force |-> FALSE])

\* x - 1 on a u16: for x = 0 a debug build panics (overflow checks), a
\* release build wraps to u16::MAX
u16_minus_one(x, release) ==
    IF x > 0 THEN [v |-> x - 1, panic |-> FALSE]
    ELSE IF release THEN [v |-> U16_MAX, panic |-> FALSE]
    ELSE [v |-> 0, panic |-> TRUE]

selected_row(tv) == tv.selected

\* stringify of both views: |path| path.path.clone(), |shortcut| shortcut.path.clone()
stringify(entry) == entry.path

\* [panic, v]: items[row] panics when row is out of range
handle_chosen(tv) ==
    IF tv.data_model.entries.some
    THEN IF ~selected_row(tv).some THEN [panic |-> FALSE, v |-> NoneSeq]
         ELSE IF selected_row(tv).v >= Len(tv.data_model.entries.v)
         THEN [panic |-> TRUE, v |-> NoneSeq]
         ELSE [panic |-> FALSE,
               v |-> Some(stringify(tv.data_model.entries.v[selected_row(tv).v + 1]))]
    ELSE [panic |-> FALSE, v |-> NoneSeq]

\* the step of Down / Up: table_rows_count for a page, else JUMP_OFFSET or 1
scroll_offset(tv, jump, page) ==
    IF page THEN tv.table_rows_count ELSE IF jump THEN JUMP_OFFSET ELSE 1

\* table_state.select(Some(next)) after the scroll `upd`
select_next(tv, upd, next) ==
    IF upd.panic \/ next.panic THEN Panicked(tv)
    ELSE [upd EXCEPT !.tv.selected = Some(next.v)]

\* the row handle_down selects: next = current_row + offset, and
\* (length - 1) when next >= length
down_next(current_row, offset, length, release) ==
    IF current_row + offset >= length
    THEN u16_minus_one(length, release)
    ELSE [v |-> current_row + offset, panic |-> FALSE]

\* handle_down once the cache has scrolled
down_select(tv, offset, release, upd) ==
    select_next(tv, upd, down_next(selected_row(tv).v, offset,
                                   upd.tv.data_model.length, release))

\* handle_down with last_row = (table_rows_count - 1) as usize
down_scroll(tv, offset, page, view, fail, release, last_row) ==
    IF last_row.panic THEN Panicked(tv)
    ELSE down_select(tv, offset, release,
                     IF selected_row(tv).v = last_row.v \/ page
                     THEN tv_update_to_offset(tv, offset, tv.table_rows_count,
                                              tv.search_string, view, fail)
                     ELSE Done(tv))

handle_down_without_data(tv, jump, page, view, fail, release) ==
    IF ~selected_row(tv).some THEN Done(tv)
    ELSE down_scroll(tv, scroll_offset(tv, jump, page), page, view, fail, release,
                     u16_minus_one(tv.table_rows_count, release))

handle_down(tv, jump, page, view, fail, release) ==
    IF ~tv.data_model.entries.some THEN Done(tv)
    ELSE IF ~selected_row(tv).some THEN Done(tv)
    ELSE down_scroll(tv, scroll_offset(tv, jump, page), page, view, fail, release,
                     u16_minus_one(tv.table_rows_count, release))

\* the row handle_up selects: next = current_row - offset, and 0 when next < 0
up_next(current_row, offset) ==
    [v |-> IF current_row - offset < 0 THEN 0 ELSE current_row - offset,
     panic |-> FALSE]

up_scroll(tv, offset, page, view, fail) ==
    select_next(tv,
                IF selected_row(tv).v = 0 \/ page
                THEN tv_update_to_offset(tv, 0 - offset, tv.table_rows_count,
                                         tv.search_string, view, fail)
                ELSE Done(tv),
                up_next(selected_row(tv).v, offset))

handle_up(tv, jump, page, view, fail) ==
    IF ~tv.data_model.entries.some THEN Done(tv)
    ELSE IF ~selected_row(tv).some THEN Done(tv)
    ELSE up_scroll(tv, scroll_offset(tv, jump, page), page, view, fail)

\* table_state.select_cell(Some((0, 0)))
select_first(r) == [r EXCEPT !.tv.selected = Some(0)]

\* KeyCode::Home
handle_home(tv, view, fail) ==
    select_first(tv_update(tv, 0, tv.table_rows_count, tv.search_string, TRUE, view, fail))

\* String::pop
pop(str) == IF str = <<>> THEN str ELSE SubSeq(str, 1, Len(str) - 1)

search_edited_unforced(tv, view, fail) ==
    tv_update(tv, 0, tv.table_rows_count, tv.search_string, FALSE, view, fail)

search_edited_in_place(tv, view, fail) ==
    tv_update(tv, tv.data_model.first, tv.table_rows_count, tv.search_string, TRUE,
              view, fail)

\* the forced update at 0 that follows an edit of the search string
search_edited(tv, view, fail) ==
    tv_update(tv, 0, tv.table_rows_count, tv.search_string, TRUE, view, fail)

\* KeyCode::Backspace
handle_backspace(tv, view, fail) ==
    search_edited([tv EXCEPT !.search_string = pop(tv.search_string)], view, fail)

\* KeyCode::Char(c) with key.modifiers != KeyModifiers::CONTROL
handle_char(tv, c, view, fail) ==
    search_edited([tv EXCEPT !.search_string = Append(tv.search_string, c)], view, fail)

\* What rendering ratatui's Table does to the TableState: nothing when the
\* table's area is empty; otherwise a selection past the last row moves to the
\* last row, and no row is selected when the table has no row.
render_stateful_widget(selected, rows, area_height) ==
    IF area_height = 0 THEN selected
    ELSE IF rows = 0 THEN NoneNat
    ELSE IF selected.some /\ selected.v >= rows THEN Some(rows - 1)
    ELSE selected

\* the rows of the table: rowify(entries), or none without entries
n_rows(tv) == IF tv.data_model.entries.some THEN Len(tv.data_model.entries.v) ELSE 0

\* rowify runs when there are entries; the History view's rowify unwraps
\* store.list_all_shortcuts() and panics when that fails (`rfail`); the
\* Shortcuts view's rowify does not call the store
render_table(tv, area_height, view, rfail) ==
    IF tv.data_model.entries.some /\ view = "History" /\ rfail
    THEN Panicked(tv)
    ELSE Done([tv EXCEPT !.selected =
                 render_stateful_widget(
                     IF ~selected_row(tv).some /\ tv.data_model.length > 0
                     THEN Some(0) ELSE tv.selected,
                     n_rows(tv), area_height)])

\* Layout::vertical([Fill(1), Length(1)]) of a frame `h` lines high: the input
\* line takes one line, the table (`main`) the rest
main_height(h) == IF h > 1 THEN h - 1 ELSE 0

\* draw once the cache fits the table: render_table(frame, main)
draw_render(tv, upd, area_height, view, rfail) ==
    IF upd.panic \/ render_table(upd.tv, area_height, view, rfail).panic
    THEN Panicked(tv)
    ELSE [upd EXCEPT !.tv = render_table(upd.tv, area_height, view, rfail).tv]

draw_rows_without_update(tv, area_height, rows, view, fail, rfail) ==
    IF rows.panic THEN Panicked(tv)
    ELSE draw_render(tv, Done([tv EXCEPT !.table_rows_count = rows.v]),
                     area_height, view, rfail)

\* draw with rows = main.height - TABLE_HEADER_LENGTH
draw_rows(tv, area_height, rows, view, fail, rfail) ==
    IF rows.panic THEN Panicked(tv)
    ELSE draw_render(tv,
                     IF tv.data_model.length # rows.v
                     THEN tv_update([tv EXCEPT !.table_rows_count = rows.v],
                                    tv.data_model.first, rows.v, tv.search_string,
                                    TRUE, view, fail)
                     ELSE Done([tv EXCEPT !.table_rows_count = rows.v]),
                     area_height, view, rfail)

\* TABLE_HEADER_LENGTH is 1: the subtraction is u16_minus_one
draw(tv, h, view, fail, rfail, release) ==
    draw_rows(tv, main_height(h), u16_minus_one(main_height(h), release),
              view, fail, rfail)

\* what the handler and the draw after it did, together
handled_and_drawn(tv, handled, d) ==
    IF d.panic THEN Panicked(tv)
    ELSE [tv |-> d.tv, ucalls |-> handled.ucalls \o d.ucalls,
          calls |-> handled.calls \o d.calls,
          failed |-> handled.failed \/ d.failed, panic |-> FALSE]

handle_ctrl_char_without_flip(state, c) == state

\* KeyCode::Char(c) with modifiers exactly CONTROL, c other than 'q': the new
\* value of the shared view_state
handle_ctrl_char(state, c) == IF c = "a" THEN ~state ELSE state

\* a key handler followed by terminal.draw (tableview.rs:159)
then_draw(tv, handled, h, view, fail, rfail, release) ==
    IF handled.panic THEN Panicked(tv)
    ELSE handled_and_drawn(tv, handled,
                           draw(handled.tv, h, view, fail, rfail, release))

\* run() up to its first event::read(): select_cell(Some((0, 0))), then draw
run_enter(tv, h, view, fail, rfail, release) ==
    then_draw(tv, select_first(Done(tv)), h, view, fail, rfail, release)

----------------------------------------------------------------------------
(* The state before any operation *)

\* the paths the store is asked to hold, and the timestamps they are added with
PathStrings == {<<"a">>, <<"b">>, <<"a", "b">>, <<"A">>}
Epochs == 1..2

\* the filter texts of the update requests
Filters == {<<>>, <<"a">>, <<"A">>}

\* a store filled by add_path_with_time("a",1), ("b",1), ("ab",2), ("A",2)
RECURSIVE AddAll(_, _, _)
AddAll(table, seq, script) ==
    IF script = <<>> THEN table
    ELSE AddAll(Append(SelectSeq(table, LAMBDA r : r.path # script[1].path),
                       [id |-> seq + 1, path |-> script[1].path, date |-> script[1].date]),
                seq + 1, Tail(script))

FilledStore ==
    AddAll(<<>>, 0, << [path |-> <<"a">>, date |-> 1], [path |-> <<"b">>, date |-> 1],
                       [path |-> <<"a", "b">>, date |-> 2], [path |-> <<"A">>, date |-> 2] >>)

NoOp == [op |-> "new", first |-> 0, length |-> 0, text |-> <<>>, force |-> FALSE,
         offset |-> 0, ret |-> FALSE, calls |-> <<>>, res |-> [ok |-> FALSE, v |-> <<>>],
         pre |-> DataViewModel_new, repeat |-> FALSE]

InitCache ==
    /\ paths = FilledStore
    /\ paths_seq = Len(FilledStore)
    /\ shortcuts = <<>>
    /\ shortcuts_seq = 0
    /\ history_view = TableView_new
    /\ shortcut_view = TableView_new
    /\ current_view = "History"
    /\ view_state = TRUE
    /\ height = 0
    /\ running = FALSE
    /\ result = NoResult
    /\ panicked = FALSE
    /\ last = NoOp
    /\ hist = NoHistory

----------------------------------------------------------------------------------------------------------------------------------------
(* The cache harness: any sequence of update / update_to_offset calls on   *)
(* one DataViewModel over list_paths, while rows of the store are deleted *)
(* (so that the same query is answered differently over time).  The       *)
(* caller holds the outcome of a call in `last` until it drops it; it may  *)
(* first repeat an update call with the same arguments.                    *)

Idle == last.op = "new"

Called(op, first, length, text, force, offset, dm, r, repeat) ==
    [op |-> op, first |-> first, length |-> length, text |-> text, force |-> force,
     offset |-> offset, ret |-> r.ret, calls |-> r.calls, res |-> r.res,
     pre |-> dm, repeat |-> repeat]

CacheUpdate ==
    /\ ~panicked /\ Idle
    /\ \E first \in 0..MaxFirst, length \in 0..MaxLen, text \in Filters,
       force \in BOOLEAN, fail \in BOOLEAN :
        LET dm == history_view.data_model IN
        \E r \in {update(dm, first, length, text, force, "History", fail)} :
            /\ history_view' = [history_view EXCEPT !.data_model = r.dm]
            /\ panicked' = r.panic
            /\ last' = Called("update", first, length, text, force, 0, dm, r, FALSE)
            /\ UNCHANGED <<storeVars, guiVars>>

\* the same update call once more, right after one that the store answered
\* without error
CacheUpdateAgain ==
    /\ ~panicked
    /\ last.op = "update" /\ ~last.repeat
    /\ (last.calls # <<>> => last.res.ok)
    /\ LET dm == history_view.data_model IN
       \E r \in {update(dm, last.first, last.length, last.text, last.force, "History", FALSE)} :
        /\ history_view' = [history_view EXCEPT !.data_model = r.dm]
        /\ panicked' = r.panic
        /\ last' = Called("update", last.first, last.length, last.text, last.force,
                          0, dm, r, TRUE)
        /\ UNCHANGED <<storeVars, guiVars>>

CacheUpdateToOffset ==
    /\ ~panicked /\ Idle
    /\ \E offset \in (0 - MaxFirst)..MaxFirst, length \in 0..MaxLen, text \in Filters,
       fail \in BOOLEAN :
        LET dm == history_view.data_model IN
        \E r \in {update_to_offset(dm, offset, length, text, "History", fail)} :
            /\ history_view' = [history_view EXCEPT !.data_model = r.dm]
            /\ panicked' = r.panic
            /\ last' = Called("update_to_offset", offset_first(dm, offset), length, text,
                              FALSE, offset, dm, r, FALSE)
            /\ UNCHANGED <<storeVars, guiVars>>

CacheDropResult ==
    /\ ~panicked /\ ~Idle
    /\ last' = NoOp
    /\ UNCHANGED <<storeVars, history_view, guiVars, panicked>>

CacheDeletePath ==
    /\ ~panicked /\ Idle
    /\ \E i \in 1..Len(paths) :
        /\ delete_path_by_id(paths[i].id)
        /\ UNCHANGED <<shortcuts, shortcuts_seq, history_view, guiVars, panicked, last>>

NextCache ==
    \/ CacheUpdate
    \/ CacheUpdateAgain
    \/ CacheUpdateToOffset
    \/ CacheDropResult
    \/ CacheDeletePath

SpecCache == InitCache /\ [][NextCache]_vars

----------------------------------------------------------------------------
(* The view harness: one TableView (the History view, over list_paths) run *)
(* as Gui::run runs it.  run() is entered, reads events until one ends it, *)
(* and may be entered again after it returned Next.  The terminal is one   *)
(* line high or more; in a terminal of one line the table's area is empty. *)
(* `hist.release` is the build of the session: where a u16 subtraction    *)
(* overflows, a debug build panics and a release build wraps.  After an    *)
(* event is handled the loop goes back to event::read(), which drops the   *)
(* record of the event.                                                    *)

Heights == 1..(MaxRows + 2)
\* the characters of Char key events, and the modifier sets of key events
CharKeys == {"a", "b", "q"}
ModSets == {{}, {"SHIFT"}, {"CONTROL"}, {"CONTROL", "SHIFT"}}
\* the arrow and page keys test only modifiers.contains(SHIFT)
ArrowModSets == {{}, {"SHIFT"}}

InitView ==
    /\ paths = FilledStore
    /\ paths_seq = Len(FilledStore)
    /\ shortcuts = <<>>
    /\ shortcuts_seq = 0
    /\ history_view = TableView_new
    /\ shortcut_view = TableView_new
    /\ current_view = "History"
    /\ view_state = TRUE
    /\ height \in Heights
    /\ running = FALSE
    /\ result = NoResult
    /\ panicked = FALSE
    /\ last = NoOp
    /\ hist \in {[failed |-> FALSE, release |-> b] : b \in BOOLEAN}

\* blocked in event::read() (tableview.rs:94)
Reading == running /\ ~panicked /\ Idle

\* `pre` is the view before the event, `handled` the view after the key's
\* handler and before the draw, `hucalls` the calls the handler made to the
\* cache, `hcalls` the store calls the handler made, `hfailed` whether one of
\* them ended in an error, `hpanic` whether the handler panicked, `calls` the
\* store calls of the handler and the draw, `failed` whether one of them ended
\* in an error
Event(op, c, mods) ==
    [op |-> op, c |-> c, mods |-> mods, pre |-> history_view,
     handled |-> history_view, hucalls |-> <<>>, hcalls |-> <<>>, hfailed |-> FALSE,
     hpanic |-> FALSE, calls |-> <<>>, failed |-> FALSE]

\* a selection inside the store's rows, or at most MaxWrapSteps below u16::MAX
Followed(selected) ==
    selected.v <= Len(FilledStore) \/ selected.v >= U16_MAX - MaxWrapSteps

\* the event was handled to the end: the view is r.tv unless the process died
Handled(op, c, mods, hd, r) ==
    /\ Followed(r.tv.selected)
    /\ history_view' = r.tv
    /\ panicked' = r.panic
    /\ last' = [Event(op, c, mods) EXCEPT !.handled = hd.tv, !.hucalls = hd.ucalls,
                                         !.hcalls = hd.calls, !.hfailed = hd.failed,
                                         !.hpanic = hd.panic, !.calls = r.calls,
                                         !.failed = r.failed]
    /\ hist' = [hist EXCEPT !.failed = @ \/ r.failed]
    /\ UNCHANGED <<storeVars, shortcut_view, current_view, height>>

\* the event ended run() with `res`, without a draw
Returned(op, c, mods, res) ==
    /\ running' = FALSE
    /\ result' = res
    /\ last' = Event(op, c, mods)
    /\ UNCHANGED <<storeVars, history_view, shortcut_view, current_view, view_state,
                   height, panicked, hist>>

ViewRun ==
    /\ ~running /\ ~panicked /\ Idle
    /\ result.kind \in {"None", "Next"}
    /\ \E fail \in BOOLEAN, rfail \in BOOLEAN :
        \E r \in {run_enter(history_view, height, "History", fail, rfail, hist.release)} :
            /\ Handled("run", "", {}, select_first(Done(history_view)), r)
            /\ running' = ~r.panic
            /\ result' = NoResult
            /\ UNCHANGED view_state

KeyEnter ==
    /\ Reading
    /\ \E chosen \in {handle_chosen(history_view)} :
        IF chosen.panic
        THEN /\ panicked' = TRUE
             /\ last' = [Event("Enter", "", {}) EXCEPT !.hpanic = TRUE]
             /\ UNCHANGED <<storeVars, history_view, shortcut_view, current_view,
                            view_state, height, running, result, hist>>
        ELSE Returned("Enter", "", {},
                      IF chosen.v.some THEN [kind |-> "Print", v |-> chosen.v.v]
                      ELSE [kind |-> "Quit", v |-> <<>>])

KeyHome ==
    /\ Reading
    /\ \E fail1 \in BOOLEAN, fail2 \in BOOLEAN, rfail \in BOOLEAN :
        \E hd \in {handle_home(history_view, "History", fail1)} :
        \E r \in {then_draw(history_view, hd, height, "History", fail2, rfail, hist.release)} :
            /\ Handled("Home", "", {}, hd, r)
            /\ UNCHANGED <<view_state, running, result>>

KeyDown ==
    /\ Reading
    /\ \E mods \in ArrowModSets, page \in BOOLEAN,
          fail1 \in BOOLEAN, fail2 \in BOOLEAN, rfail \in BOOLEAN :
        \E hd \in {handle_down(history_view, "SHIFT" \in mods, page,
                                "History", fail1, hist.release)} :
        \E r \in {then_draw(history_view, hd, height, "History", fail2, rfail, hist.release)} :
            /\ Handled(IF page THEN "PageDown" ELSE "Down", "", mods, hd, r)
            /\ UNCHANGED <<view_state, running, result>>

KeyUp ==
    /\ Reading
    /\ \E mods \in ArrowModSets, page \in BOOLEAN,
          fail1 \in BOOLEAN, fail2 \in BOOLEAN, rfail \in BOOLEAN :
        \E hd \in {handle_up(history_view, "SHIFT" \in mods, page, "History", fail1)} :
        \E r \in {then_draw(history_view, hd, height, "History", fail2, rfail, hist.release)} :
            /\ Handled(IF page THEN "PageUp" ELSE "Up", "", mods, hd, r)
            /\ UNCHANGED <<view_state, running, result>>

KeyTab ==
    /\ Reading
    /\ Returned("Tab", "", {}, [kind |-> "Next", v |-> <<>>])

KeyEsc ==
    /\ Reading
    /\ Returned("Esc", "", {}, [kind |-> "Quit", v |-> <<>>])

KeyBackspace ==
    /\ Reading
    /\ \E fail1 \in BOOLEAN, fail2 \in BOOLEAN, rfail \in BOOLEAN :
        \E hd \in {handle_backspace(history_view, "History", fail1)} :
        \E r \in {then_draw(history_view, hd, height, "History", fail2, rfail, hist.release)} :
            /\ Handled("Backspace", "", {}, hd, r)
            /\ UNCHANGED <<view_state, running, result>>

\* KeyCode::Char(c) with modifiers other than exactly CONTROL
KeyChar ==
    /\ Reading
    /\ Len(history_view.search_string) < MaxSearch
    /\ \E c \in CharKeys, mods \in ModSets \ {{"CONTROL"}},
          fail1 \in BOOLEAN, fail2 \in BOOLEAN, rfail \in BOOLEAN :
        \E hd \in {handle_char(history_view, c, "History", fail1)} :
        \E r \in {then_draw(history_view, hd, height, "History", fail2, rfail, hist.release)} :
            /\ Handled("Char", c, mods, hd, r)
            /\ UNCHANGED <<view_state, running, result>>

\* KeyCode::Char('q') with modifiers exactly CONTROL
KeyCtrlQ ==
    /\ Reading
    /\ Returned("Char", "q", {"CONTROL"}, [kind |-> "Quit", v |-> <<>>])

\* KeyCode::Char(c) with modifiers exactly CONTROL, c other than 'q':
\* 'a' flips view_state, any other character does nothing; then draw
KeyCtrlChar ==
    /\ Reading
    /\ \E c \in CharKeys \ {"q"}, fail2 \in BOOLEAN, rfail \in BOOLEAN :
        \E r \in {then_draw(history_view, Done(history_view),
                            height, "History", fail2, rfail, hist.release)} :
            /\ Handled("Char", c, {"CONTROL"}, Done(history_view), r)
            /\ view_state' = IF r.panic THEN view_state
                              ELSE handle_ctrl_char(view_state, c)
            /\ UNCHANGED <<running, result>>

\* any other key: logged, then draw
KeyOther ==
    /\ Reading
    /\ \E fail2 \in BOOLEAN, rfail \in BOOLEAN :
        \E r \in {then_draw(history_view, Done(history_view),
                            height, "History", fail2, rfail, hist.release)} :
            /\ Handled("Other", "", {}, Done(history_view), r)
            /\ UNCHANGED <<view_state, running, result>>

\* Event::Resize: draw
ResizeEvent ==
    /\ Reading
    /\ \E fail2 \in BOOLEAN, rfail \in BOOLEAN :
        \E r \in {then_draw(history_view, Done(history_view),
                            height, "History", fail2, rfail, hist.release)} :
            /\ Handled("Resize", "", {}, Done(history_view), r)
            /\ UNCHANGED <<view_state, running, result>>

\* Event::Mouse and the other events: logged, no draw
MouseEvent ==
    /\ Reading
    /\ last' = Event("Mouse", "", {})
    /\ UNCHANGED <<storeVars, history_view, shortcut_view, current_view, view_state,
                   height, running, result, panicked, hist>>

\* the user resizes the terminal; the views learn of it at their next draw
TerminalResized ==
    /\ ~panicked /\ Idle
    /\ \E h \in Heights \ {height} : height' = h
    /\ UNCHANGED <<storeVars, history_view, shortcut_view, current_view, view_state,
                   running, result, panicked, last, hist>>

\* back at event::read(), or run() has returned to Gui::run
ViewAwait ==
    /\ ~panicked /\ ~Idle
    /\ last' = NoOp
    /\ UNCHANGED <<storeVars, history_view, shortcut_view, current_view, view_state,
                   height, running, result, panicked, hist>>

NextView ==
    \/ ViewRun
    \/ KeyEnter
    \/ KeyHome
    \/ KeyDown
    \/ KeyUp
    \/ KeyTab
    \/ KeyEsc
    \/ KeyBackspace
    \/ KeyChar
    \/ KeyCtrlQ
    \/ KeyCtrlChar
    \/ KeyOther
    \/ ResizeEvent
    \/ MouseEvent
    \/ TerminalResized
    \/ ViewAwait

SpecView == InitView /\ [][NextView]_vars

----------------------------------------------------------------------------
(* Claims about DataViewModel, checked under SpecCache.  `last` holds the  *)
(* call just made: its arguments, the cache before it (pre), the value it  *)
(* returned, the ListFunction calls it made and the ListFunction's answer. *)

dm == history_view.data_model
IsCall == last.op \in {"update", "update_to_offset"}
Fetched == IsCall /\ last.calls # <<>>
Answered == Fetched /\ last.res.ok
k == Len(last.res.v)

\* the request lies inside the cached window of a non-empty cache
InsideWindow ==
    /\ IsCall
    /\ last.pre.entries.some
    /\ last.first >= last.pre.first
    /\ last.first + last.length <= last.pre.first + last.pre.length

\* C1 (as claimed): a request inside the cached window under the same filter
\* completes normally, returns false and calls the ListFunction zero times.
C1_SubsetReuse ==
    (InsideWindow /\ last.text = last.pre.filter)
        => (~panicked /\ last.ret = FALSE /\ last.calls = <<>>)

\* C2 (as claimed): a subset request of a cache {f0, l0, filter} with entries E
\* leaves window = {first, length, filter} and entries = E[first-f0 .. first-f0+length).
C2_WindowNarrowing ==
    (InsideWindow /\ last.text = last.pre.filter)
        => /\ ~panicked
           /\ dm = [entries |-> Some(Slice(last.pre.entries.v,
                                           last.first - last.pre.first,
                                           last.first - last.pre.first + last.length)),
                    first |-> last.first, length |-> last.length,
                    filter |-> last.text]

\* C3: a request inside the cached window whose filter differs from the cached
\* one calls the ListFunction exactly once, with (first, length, filter), and
\* the cache afterwards is the one before the call, the store's answer, or empty:
\* never a slice of the cached entries.
C3_FilterInvalidation ==
    (InsideWindow /\ last.text # last.pre.filter)
        => /\ ~panicked
           /\ last.calls = <<[first |-> last.first, length |-> last.length,
                              text |-> last.text]>>
           /\ \/ dm = last.pre
              \/ /\ last.res.ok
                 /\ dm = [entries |-> Some(last.res.v), first |-> last.first,
                          length |-> k, filter |-> last.text]
              \/ ~dm.entries.some

C3_Witness ==
    /\ InsideWindow /\ last.text # last.pre.filter
    /\ last.text # <<>> /\ last.pre.filter # <<>>
    /\ Lower(last.text[1]) = Lower(last.pre.filter[1])
    /\ last.ret /\ dm.entries.some /\ dm.filter = last.text

\* C4 (as claimed): the second of two identical update calls in a row returns
\* false and leaves the cache as the first call left it.
C4_Idempotence == last.repeat => (last.ret = FALSE /\ dm = last.pre)

\* the store returned zero rows to a forced update of an empty cache
ForcedEmptyAgain ==
    Answered /\ last.force /\ k = 0 /\ ~last.pre.entries.some

\* C4 (amended): the second of two identical update calls in a row leaves the
\* cache as the first call left it, and returns false unless it is a forced
\* update of an empty cache that gets zero rows, which returns true again.
C4_IdempotenceAmended ==
    last.repeat => /\ ~panicked
                   /\ dm = last.pre
                   /\ (last.ret <=> ForcedEmptyAgain)

C4_Witness == last.repeat /\ Answered /\ k > 0 /\ k < last.length /\ ~last.ret

\* the short page the store returned is already covered by the cache
ShortPageCovered ==
    /\ Answered
    /\ k < last.length
    /\ is_a_subset_of(last.pre, last.first, k, last.text)

\* C5: when the request is not a subset request, the store returns k < length
\* rows and the cache already covers [p, p+k) under the same filter, entries
\* and window are left as they were and update returns false.
C5_ShortPageStability == ShortPageCovered => (dm = last.pre /\ last.ret = FALSE)

C5_Witness == ShortPageCovered /\ k > 0 /\ last.op = "update" /\ last.force

\* C6: update_to_offset(offset, length, filter) is update(max(0, first + offset),
\* length, filter, false): same cache afterwards, same value returned, same
\* ListFunction calls, none of them with a negative start position.
C6_OffsetClamp ==
    last.op = "update_to_offset" =>
        LET r == update(last.pre, Max(0, last.pre.first + last.offset), last.length,
                        last.text, FALSE, "History", Fetched /\ ~last.res.ok)
        IN  /\ dm = r.dm /\ last.ret = r.ret /\ last.calls = r.calls
            /\ panicked = r.panic
            /\ \A i \in 1..Len(last.calls) :
                   /\ last.calls[i].first >= 0
                   /\ last.calls[i].first = Max(0, last.pre.first + last.offset)

C6_Witness ==
    /\ last.op = "update_to_offset"
    /\ last.pre.first + last.offset < 0
    /\ Answered /\ last.calls[1].first = 0 /\ last.ret

\* C7: when the ListFunction returns an error, entries and window are
\* unchanged, update returns false and the process goes on.
C7_FailureAbsorbed ==
    (Fetched /\ ~last.res.ok) => (dm = last.pre /\ last.ret = FALSE /\ ~panicked)

C7_Witness == Fetched /\ ~last.res.ok /\ last.force /\ last.pre.entries.some

\* a forced update fetched, got zero rows, and the short-page rule did not apply
ForcedZero ==
    /\ last.op = "update" /\ last.force
    /\ Answered /\ k = 0
    /\ ~(last.length # 0 /\ is_a_subset_of(last.pre, last.first, 0, last.text))

\* C8 (as claimed): after such an update entries is absent, window is
\* {0, 0, the requested filter} and update returned true.
C8_ForcedClear ==
    ForcedZero => /\ dm = [entries |-> NoneSeq, first |-> 0, length |-> 0,
                           filter |-> last.text]
                  /\ last.ret = TRUE

\* C8 (amended): after such an update entries is absent, first and length are
\* 0, the filter is the one the cache held before the call, and update
\* returned true.
C8_ForcedClearAmended ==
    ForcedZero => /\ dm = [entries |-> NoneSeq, first |-> 0, length |-> 0,
                           filter |-> last.pre.filter]
                  /\ last.ret = TRUE

C8_Witness ==
    /\ ForcedZero /\ last.pre.entries.some /\ last.pre.first > 0
    /\ last.pre.filter # last.text

\* C9: if entries is present its length is window.length, and if it is absent
\* window.length is 0.
C9_CacheShape ==
    /\ dm.entries.some => Len(dm.entries.v) = dm.length
    /\ ~dm.entries.some => dm.length = 0

C9_Witness ==
    /\ last.op = "update" /\ last.calls = <<>> /\ ~panicked
    /\ last.pre.entries.some /\ last.length < last.pre.length /\ last.length > 0
    /\ dm.length = last.length

\* the store answered the fetch with fewer rows than were asked for
ShortPage == Answered /\ k < last.length

\* the cache as it was before the call covers [first, first + k) under the
\* filter of the request
Covered ==
    /\ last.pre.entries.some
    /\ last.first >= last.pre.first
    /\ last.first + k <= last.pre.first + last.pre.length
    /\ last.pre.filter = last.text

\* C26 Partial-result precedence: when update fetches and the store returns
\* fewer rows than requested, the checks apply in the order (1) the previous
\* cache covers [first, first + resultLen) under the same filter: cache
\* untouched, false; (2) resultLen > 0: the short page becomes the window
\* {first, resultLen, filter}, true; (3) resultLen = 0: cleared iff force.  So
\* a forced update that gets zero rows for a start position inside or at the
\* end of the window under the same filter leaves the cache and returns false,
\* and an unforced update that gets zero rows never changes the cache.
C26_PartialResultPrecedence ==
    /\ ShortPage =>
          /\ ~panicked
          /\ IF Covered THEN dm = last.pre /\ ~last.ret
             ELSE IF k > 0
             THEN /\ dm = [entries |-> Some(last.res.v), first |-> last.first,
                           length |-> k, filter |-> last.text]
                  /\ last.ret
             ELSE IF last.force THEN ~dm.entries.some /\ dm.length = 0 /\ last.ret
             ELSE dm = last.pre /\ ~last.ret
    /\ (Answered /\ k = 0 /\ last.force /\ last.pre.entries.some
          /\ last.pre.filter = last.text
          /\ last.first \in last.pre.first..(last.pre.first + last.pre.length)) =>
            dm = last.pre /\ ~last.ret
    /\ (Answered /\ k = 0 /\ ~last.force) => dm = last.pre /\ ~last.ret

\* a forced update at the end of the window got zero rows and the cache kept
\* its entries
C26_Witness ==
    /\ ShortPage /\ last.op = "update" /\ last.force /\ k = 0
    /\ Covered /\ last.first = last.pre.first + last.pre.length
    /\ last.pre.length > 0
    /\ dm.entries.some /\ ~last.ret

----------------------------------------------------------------------------
(* The store harness: any sequence of add_path, delete_path_by_id,         *)
(* list_paths and list_all_paths calls on a store that starts empty.       *)
(* add_path stamps the row with SystemTime::now() in seconds, any of       *)
(* Epochs.  A statement may end in a rusqlite::Error.  `hist.added` logs,  *)
(* in the order of the calls, the paths added and not deleted since, each  *)
(* with the time it was added at.                                          *)

StorePaths == {<<"a">>, <<"b">>, <<"a", "b">>}
StoreFailures == {"none", "delete", "insert"}

NoStoreOp == [op |-> "new", path |-> <<>>, epoc |-> 0, id |-> 0, pos |-> 0, len |-> 0,
              ok |-> TRUE, pre |-> <<>>, res |-> <<>>]

InitStore ==
    /\ paths = <<>>
    /\ paths_seq = 0
    /\ shortcuts = <<>>
    /\ shortcuts_seq = 0
    /\ history_view = TableView_new
    /\ shortcut_view = TableView_new
    /\ current_view = "History"
    /\ view_state = TRUE
    /\ height = 0
    /\ running = FALSE
    /\ result = NoResult
    /\ panicked = FALSE
    /\ last = NoStoreOp
    /\ hist = [failed |-> FALSE, added |-> <<>>]

viewVars == <<history_view, shortcut_view, current_view, view_state, height, running,
              result, panicked>>

\* add_path(path): add_path_with_time(path, SystemTime::now())
StoreAddPath ==
    /\ Idle
    /\ paths_seq < MaxAdds
    /\ \E path \in StorePaths, epoc \in Epochs, failure \in StoreFailures :
        /\ last' = [NoStoreOp EXCEPT !.op = "add_path", !.path = path, !.epoc = epoc,
                                     !.ok = (failure = "none"), !.pre = paths]
        /\ IF failure = "none"
           THEN /\ add_path_with_time(path, epoc)
                /\ hist' = [hist EXCEPT !.added =
                              Append(SelectSeq(@, LAMBDA a : a.path # path),
                                     [path |-> path, date |-> epoc])]
           ELSE IF failure = "insert"
           THEN /\ paths' = add_path_with_time_insert_failed_rows(path)
                /\ paths_seq' = paths_seq
                /\ hist' = [hist EXCEPT !.failed = TRUE,
                                        !.added = SelectSeq(@, LAMBDA a : a.path # path)]
           ELSE /\ UNCHANGED <<paths, paths_seq>>
                /\ hist' = [hist EXCEPT !.failed = TRUE]
        /\ UNCHANGED <<shortcuts, shortcuts_seq, viewVars>>

\* delete_path_by_id(id), of an id that is or is not in the table
StoreDeletePathById ==
    /\ Idle
    /\ \E id \in 1..paths_seq, fail \in BOOLEAN :
        /\ last' = [NoStoreOp EXCEPT !.op = "delete_path_by_id", !.id = id,
                                     !.ok = ~fail, !.pre = paths]
        /\ IF fail
           THEN /\ UNCHANGED <<paths, paths_seq>>
                /\ hist' = [hist EXCEPT !.failed = TRUE]
           ELSE /\ delete_path_by_id(id)
                /\ hist' = [hist EXCEPT !.added =
                              SelectSeq(@, LAMBDA a :
                                  \A i \in 1..Len(paths) :
                                      paths[i].id = id => paths[i].path # a.path)]
        /\ UNCHANGED <<shortcuts, shortcuts_seq, viewVars>>

StoreListPaths ==
    /\ Idle
    /\ \E pos \in 0..MaxPos, len \in 0..MaxPos :
        /\ last' = [NoStoreOp EXCEPT !.op = "list_paths", !.pos = pos, !.len = len,
                                     !.pre = paths, !.res = list_paths(pos, len, <<>>)]
        /\ UNCHANGED <<storeVars, viewVars, hist>>

StoreListAllPaths ==
    /\ Idle
    /\ last' = [NoStoreOp EXCEPT !.op = "list_all_paths", !.pre = paths,
                                 !.res = list_all_paths]
    /\ UNCHANGED <<storeVars, viewVars, hist>>

\* the caller drops the outcome of the call
StoreDropResult ==
    /\ ~Idle
    /\ last' = NoStoreOp
    /\ UNCHANGED <<storeVars, viewVars, hist>>

NextStore ==
    \/ StoreAddPath
    \/ StoreDeletePathById
    \/ StoreListPaths
    \/ StoreListAllPaths
    \/ StoreDropResult

SpecStore == InitStore /\ [][NextStore]_vars

----------------------------------------------------------------------------
(* gui.rs: the row formatter of the History view.  A Line is the sequence  *)
(* of the texts of its spans; colours are left out.                        *)

\* str::starts_with
starts_with(s, prefix) == Len(prefix) <= Len(s) /\ SubSeq(s, 1, Len(prefix)) = prefix

\* &s[from..]
SliceFrom(s, from) == SubSeq(s, from + 1, Len(s))

\* format!("{}/", shortcut.path)
spm(target) == target \o <<"/">>

shortcut_applies_last_longest(shortcut, path, cpath) ==
    /\ starts_with(path.path, spm(shortcut.path)) \/ path.path = shortcut.path
    /\ Len(shortcut.path) >= Len(cpath)

\* the test of shorten_path's loop: the shortcut matches the path and its
\* target is longer than the longest target found so far
shortcut_applies(shortcut, path, cpath) ==
    /\ starts_with(path.path, spm(shortcut.path)) \/ path.path = shortcut.path
    /\ Len(shortcut.path) > Len(cpath)

\* "[" + name + "]" + &path.path[(spm.len() - 1)..]
shortcut_line(shortcut, path) ==
    << <<"[">>, shortcut.name, <<"]">>,
       SliceFrom(path.path, Len(spm(shortcut.path)) - 1) >>

\* the loop of shorten_path over the shortcuts from `list` on
RECURSIVE shorten_path_from(_, _, _, _)
shorten_path_from(list, path, cpath, shortened_line) ==
    IF list = <<>> THEN shortened_line
    ELSE IF shortcut_applies(Head(list), path, cpath)
    THEN shorten_path_from(Tail(list), path, Head(list).path,
                           Some(shortcut_line(Head(list), path)))
    ELSE shorten_path_from(Tail(list), path, cpath, shortened_line)

shorten_path(list, path) == shorten_path_from(list, path, <<>>, NoneSeq)

\* `home` is env::var("HOME"): Some(value), or none when it is not set
reduce_path(path, home) ==
    IF home.some /\ (starts_with(path.path, spm(home.v)) \/ path.path = home.v)
    THEN << <<"~">>, SliceFrom(path.path, Len(spm(home.v)) - 1) >>
    ELSE << path.path >>

\* the path Line of one row of format_history_row_builder's closure
format_history_row(path, list, state, home) ==
    IF state /\ shorten_path(list, path).some
    THEN shorten_path(list, path).v
    ELSE reduce_path(path, home)

----------------------------------------------------------------------------
(* The formatter harness: shortcuts are added to a store that holds the    *)
(* paths FormatStore, the toggle is flipped, and the History view's rowify *)
(* is applied to a stored path.  rowify reads the shortcuts with           *)
(* list_all_shortcuts().unwrap(); the process dies when that call fails.   *)
(* `hist.home` is the HOME variable of the process.                        *)

ShortcutTargets == {<<>>, <<"/", "a">>, <<"/", "a", "/", "b">>, <<"/", "b">>, <<"a">>}
ShortcutNames == {<<"a">>, <<"b">>, <<"B">>}
Homes == {NoneSeq, Some(<<"/", "a">>)}

FormatStore ==
    AddAll(<<>>, 0, << [path |-> <<"/", "a">>, date |-> 1],
                       [path |-> <<"/", "a", "b">>, date |-> 1],
                       [path |-> <<"/", "a", "/", "b">>, date |-> 1],
                       [path |-> <<"/", "b">>, date |-> 1],
                       [path |-> <<"a", "/", "b">>, date |-> 1] >>)

NoFormatOp == [op |-> "new", path |-> <<>>, list |-> <<>>, state |-> FALSE, res |-> <<>>]

InitFormat ==
    /\ paths = FormatStore
    /\ paths_seq = Len(FormatStore)
    /\ shortcuts = <<>>
    /\ shortcuts_seq = 0
    /\ history_view = TableView_new
    /\ shortcut_view = TableView_new
    /\ current_view = "History"
    /\ view_state = TRUE
    /\ height = 0
    /\ running = FALSE
    /\ result = NoResult
    /\ panicked = FALSE
    /\ last = NoFormatOp
    /\ hist \in {[failed |-> FALSE, home |-> h] : h \in Homes}

FormatAddShortcut ==
    /\ ~panicked /\ Idle
    /\ shortcuts_seq < MaxShortcuts
    /\ \E name \in ShortcutNames, path \in ShortcutTargets : add_shortcut(name, path)
    /\ UNCHANGED <<paths, paths_seq, viewVars, last, hist>>

\* Ctrl+a
FormatToggle ==
    /\ ~panicked /\ Idle
    /\ view_state' = handle_ctrl_char(view_state, "a")
    /\ UNCHANGED <<storeVars, history_view, shortcut_view, current_view, height,
                   running, result, panicked, last, hist>>

\* rowify of one cached path
FormatRow ==
    /\ ~panicked /\ Idle
    /\ \E i \in 1..Len(paths), rfail \in BOOLEAN :
        IF rfail
        THEN /\ panicked' = TRUE
             /\ hist' = [hist EXCEPT !.failed = TRUE]
             /\ UNCHANGED last
        ELSE /\ last' = [op |-> "rowify", path |-> paths[i].path,
                         list |-> list_all_shortcuts, state |-> view_state,
                         res |-> format_history_row(paths[i], list_all_shortcuts,
                                                    view_state, hist.home)]
             /\ UNCHANGED <<panicked, hist>>
    /\ UNCHANGED <<storeVars, history_view, shortcut_view, current_view, view_state,
                   height, running, result>>

FormatDropResult ==
    /\ ~panicked /\ ~Idle
    /\ last' = NoFormatOp
    /\ UNCHANGED <<storeVars, viewVars, hist>>

NextFormat ==
    \/ FormatAddShortcut
    \/ FormatToggle
    \/ FormatRow
    \/ FormatDropResult

SpecFormat == InitFormat /\ [][NextFormat]_vars

----------------------------------------------------------------------------
(* gui.rs: the router Gui::run over the two views.  The session starts on  *)
(* the History view; the store holds four paths and two shortcuts and      *)
(* answers every call; the terminal is MaxRows + 1 or MaxRows + 2 lines    *)
(* high.  `hist.left[v]` is view v as it was when Tab left it, with the    *)
(* height of the terminal then, until v has been entered again;            *)
(* `hist.returned` is whether Gui::run has returned                        *)
(* and `hist.value` what it returned; `hist.odd` is whether Ctrl+a has     *)
(* been pressed an odd number of times, `hist.tabs` whether Tab has;       *)
(* `hist.loops` is the set of views whose run() has been entered and has   *)
(* not returned.                                                           *)

gui_match_next_stays(res, current) ==
    IF res.kind = "Quit"
    THEN [ended |-> TRUE, value |-> NoneSeq, current_view |-> current]
    ELSE IF res.kind = "Print"
    THEN [ended |-> TRUE, value |-> Some(res.v), current_view |-> current]
    ELSE [ended |-> FALSE, value |-> NoneSeq, current_view |-> current]

gui_match_next_ends(res, current) ==
    IF res.kind = "Print"
    THEN [ended |-> TRUE, value |-> Some(res.v), current_view |-> current]
    ELSE [ended |-> TRUE, value |-> NoneSeq, current_view |-> current]

\* the match on the result of the view's run() in Gui::run
gui_match(res, current) ==
    IF res.kind = "Quit"
    THEN [ended |-> TRUE, value |-> NoneSeq, current_view |-> current]
    ELSE IF res.kind = "Print"
    THEN [ended |-> TRUE, value |-> Some(res.v), current_view |-> current]
    ELSE [ended |-> FALSE, value |-> NoneSeq,
          current_view |-> IF current = "History" THEN "Shortcuts" ELSE "History"]

Views == {"History", "Shortcuts"}
GuiHeights == {MaxRows + 1, MaxRows + 2}
GuiChars == {"a", "q"}
MoveKeys == {"Home", "Down", "Up", "PageDown", "PageUp"}

FilledShortcuts ==
    << [id |-> 1, name |-> <<"b">>, path |-> <<"a">>],
       [id |-> 2, name |-> <<"a">>, path |-> <<"q">>] >>

NoGuiOp == [op |-> "new", c |-> "", mods |-> {}, view |-> "History",
            pre |-> TableView_new, res |-> NoResult]

InitGui ==
    /\ paths = FilledStore
    /\ paths_seq = Len(FilledStore)
    /\ shortcuts = FilledShortcuts
    /\ shortcuts_seq = Len(FilledShortcuts)
    /\ history_view = TableView_new
    /\ shortcut_view = TableView_new
    /\ current_view = "History"
    /\ view_state = TRUE
    /\ height \in GuiHeights
    /\ running = FALSE
    /\ result = NoResult
    /\ panicked = FALSE
    /\ last = NoGuiOp
    /\ hist \in {[failed |-> FALSE, release |-> b, left |-> [v \in Views |-> NoneSeq],
                 returned |-> FALSE, value |-> NoneSeq, odd |-> FALSE,
                 tabs |-> FALSE, loops |-> {}] : b \in BOOLEAN}

\* the view that has the focus
focused == IF current_view = "History" THEN history_view ELSE shortcut_view

GuiEvent(op, c, mods) ==
    [op |-> op, c |-> c, mods |-> mods, view |-> current_view, pre |-> focused,
     res |-> NoResult]

\* the focused view handled the event to the end
GuiHandled(op, c, mods, r) ==
    /\ Followed(r.tv.selected)
    /\ IF current_view = "History"
       THEN history_view' = r.tv /\ UNCHANGED shortcut_view
       ELSE shortcut_view' = r.tv /\ UNCHANGED history_view
    /\ panicked' = r.panic
    /\ last' = GuiEvent(op, c, mods)
    /\ UNCHANGED <<storeVars, current_view, height>>

GuiLive == ~panicked /\ ~hist.returned
GuiReading == GuiLive /\ running /\ Idle

\* Gui::run calls run() of the current view
GuiEnterView ==
    /\ GuiLive /\ ~running /\ Idle
    /\ result = NoResult
    /\ \E r \in {run_enter(focused, height, current_view, FALSE, FALSE, hist.release)} :
            /\ GuiHandled("run", "", {}, r)
            /\ running' = ~r.panic
            /\ hist' = [hist EXCEPT !.loops = @ \cup {current_view}]
            /\ UNCHANGED <<view_state, result>>

\* the handler of `key` in the focused view
gui_move(tv, key, jump, view, release) ==
    IF key = "Home" THEN handle_home(tv, view, FALSE)
    ELSE IF key = "Down" THEN handle_down(tv, jump, FALSE, view, FALSE, release)
    ELSE IF key = "PageDown" THEN handle_down(tv, jump, TRUE, view, FALSE, release)
    ELSE IF key = "Up" THEN handle_up(tv, jump, FALSE, view, FALSE)
    ELSE handle_up(tv, jump, TRUE, view, FALSE)

GuiKeyMove ==
    /\ GuiReading
    /\ \E key \in MoveKeys, mods \in ArrowModSets :
        \E hd \in {gui_move(focused, key, "SHIFT" \in mods, current_view, hist.release)} :
        \E r \in {then_draw(focused, hd, height, current_view, FALSE, FALSE, hist.release)} :
            /\ GuiHandled(key, "", IF key = "Home" THEN {} ELSE mods, r)
            /\ UNCHANGED <<view_state, running, result, hist>>

GuiKeyBackspace ==
    /\ GuiReading
    /\ \E hd \in {handle_backspace(focused, current_view, FALSE)} :
        \E r \in {then_draw(focused, hd, height, current_view, FALSE, FALSE, hist.release)} :
            /\ GuiHandled("Backspace", "", {}, r)
            /\ UNCHANGED <<view_state, running, result, hist>>

GuiKeyChar ==
    /\ GuiReading
    /\ Len(focused.search_string) < MaxSearch
    /\ \E c \in GuiChars, mods \in {{}, {"CONTROL", "SHIFT"}} :
        \E hd \in {handle_char(focused, c, current_view, FALSE)} :
        \E r \in {then_draw(focused, hd, height, current_view, FALSE, FALSE, hist.release)} :
            /\ GuiHandled("Char", c, mods, r)
            /\ UNCHANGED <<view_state, running, result, hist>>

\* Ctrl+a (and Ctrl+ another character than q), then draw
GuiKeyCtrlChar ==
    /\ GuiReading
    /\ \E c \in {"a", "b"} :
        \E r \in {then_draw(focused, Done(focused), height, current_view,
                            FALSE, FALSE, hist.release)} :
            /\ GuiHandled("Char", c, {"CONTROL"}, r)
            /\ view_state' = IF r.panic THEN view_state
                              ELSE handle_ctrl_char(view_state, c)
            /\ hist' = [hist EXCEPT !.odd = IF c = "a" /\ ~r.panic THEN ~@ ELSE @]
            /\ UNCHANGED <<running, result>>

\* Event::Resize, or a key without a handler: draw
GuiRedraw ==
    /\ GuiReading
    /\ \E op \in {"Resize", "Other"} :
        \E r \in {then_draw(focused, Done(focused), height, current_view,
                            FALSE, FALSE, hist.release)} :
            /\ GuiHandled(op, "", {}, r)
            /\ UNCHANGED <<view_state, running, result, hist>>

\* the keys that end run(): Tab, Esc, Ctrl+q, Enter
GuiLeft(op, c, mods, res) ==
    /\ running' = FALSE
    /\ result' = res
    /\ last' = [GuiEvent(op, c, mods) EXCEPT !.res = res]
    /\ hist' = IF res.kind = "Next"
               THEN [hist EXCEPT !.left[current_view] =
                                    Some([tv |-> focused, height |-> height]),
                                 !.tabs = ~@,
                                 !.loops = @ \ {current_view}]
               ELSE [hist EXCEPT !.loops = @ \ {current_view}]
    /\ UNCHANGED <<storeVars, history_view, shortcut_view, current_view, view_state,
                   height, panicked>>

GuiKeyTab == GuiReading /\ GuiLeft("Tab", "", {}, [kind |-> "Next", v |-> <<>>])

GuiKeyQuit ==
    /\ GuiReading
    /\ \/ GuiLeft("Esc", "", {}, [kind |-> "Quit", v |-> <<>>])
       \/ GuiLeft("Char", "q", {"CONTROL"}, [kind |-> "Quit", v |-> <<>>])

GuiKeyEnter ==
    /\ GuiReading
    /\ \E chosen \in {handle_chosen(focused)} :
        IF chosen.panic
        THEN /\ panicked' = TRUE
             /\ last' = GuiEvent("Enter", "", {})
             /\ UNCHANGED <<storeVars, history_view, shortcut_view, current_view,
                            view_state, height, running, result, hist>>
        ELSE GuiLeft("Enter", "", {},
                     IF chosen.v.some THEN [kind |-> "Print", v |-> chosen.v.v]
                     ELSE [kind |-> "Quit", v |-> <<>>])

\* run() has returned `result` to Gui::run, which matches on it
GuiMatch ==
    /\ GuiLive /\ ~running /\ Idle
    /\ result # NoResult
    /\ \E m \in {gui_match(result, current_view)} :
        /\ current_view' = m.current_view
        /\ hist' = [hist EXCEPT !.returned = m.ended, !.value = m.value]
        /\ result' = IF m.ended THEN result ELSE NoResult
        /\ last' = [GuiEvent("match", "", {}) EXCEPT !.res = result]
    /\ UNCHANGED <<storeVars, history_view, shortcut_view, view_state, height,
                   running, panicked>>

GuiTerminalResized ==
    /\ GuiLive /\ Idle
    /\ \E h \in GuiHeights \ {height} : height' = h
    /\ UNCHANGED <<storeVars, history_view, shortcut_view, current_view, view_state,
                   running, result, panicked, last, hist>>

\* back at event::read() or in Gui::run; once a view has been entered again
\* the record of how it was left is dropped
GuiAwait ==
    /\ ~panicked /\ ~Idle
    /\ last' = NoGuiOp
    /\ hist' = IF last.op = "run" THEN [hist EXCEPT !.left[last.view] = NoneSeq]
               ELSE hist
    /\ UNCHANGED <<storeVars, history_view, shortcut_view, current_view, view_state,
                   height, running, result, panicked>>

NextGui ==
    \/ GuiEnterView
    \/ GuiKeyMove
    \/ GuiKeyBackspace
    \/ GuiKeyChar
    \/ GuiKeyCtrlChar
    \/ GuiRedraw
    \/ GuiKeyTab
    \/ GuiKeyQuit
    \/ GuiKeyEnter
    \/ GuiMatch
    \/ GuiTerminalResized
    \/ GuiAwait

SpecGui == InitGui /\ [][NextGui]_vars

----------------------------------------------------------------------------
(* Claims about the store (SpecStore) *)

\* the entry of a log of adds that is newest; of two with the same time, the
\* one added later
Latest(log) ==
    CHOOSE i \in 1..Len(log) : \A j \in 1..Len(log) :
        (log[i].date > log[j].date) \/ (log[i].date = log[j].date /\ i >= j)

RECURSIVE NewestFirst(_)
NewestFirst(log) ==
    IF log = <<>> THEN <<>>
    ELSE <<log[Latest(log)]>> \o
         NewestFirst(SubSeq(log, 1, Latest(log) - 1) \o
                     SubSeq(log, Latest(log) + 1, Len(log)))

\* the path and date of each row of a listing
PathsAndDates(rows) ==
    [i \in 1..Len(rows) |-> [path |-> rows[i].path, date |-> rows[i].date]]

\* positions [pos, pos + len) of a sequence
Positions(s, pos, len) == SubSeq(s, Min(pos, Len(s)) + 1, Min(pos + len, Len(s)))

\* C18 Paginated listing order: after any sequence of add_path calls,
\* list_paths(pos, len, "") returns at most len entries, the positions
\* [pos, pos + len) of the paths ordered newest first, where of two paths added
\* with the same timestamp the one added later comes first.
C18_PaginatedListingOrder ==
    last.op = "list_paths" =>
        /\ Len(last.res) <= last.len
        /\ PathsAndDates(last.res) =
              Positions(NewestFirst(hist.added), last.pos, last.len)

\* a page cut out of three paths, whose two entries were added with the same
\* timestamp: the one added later is listed first
C18_Witness ==
    /\ last.op = "list_paths" /\ last.len = 2
    /\ Len(hist.added) = 3
    /\ Len(last.res) = 2
    /\ last.res[1].date = last.res[2].date
    /\ \E i, j \in 1..3 : /\ i < j
                          /\ hist.added[i].path = last.res[2].path
                          /\ hist.added[j].path = last.res[1].path

\* C19 Full listing order: list_all_paths returns the stored paths in the order
\* they were added, first added first (after add_path(p1) then add_path(p2) on
\* an empty store the result is [p1, p2]).
C19_FullListingOrder ==
    last.op = "list_all_paths" => PathsAndDates(last.res) = hist.added

\* the rows of a table whose path is `path`
RowsOfPath(table, path) == {i \in 1..Len(table) : table[i].path = path}
RowsOfId(table, id) == {i \in 1..Len(table) : table[i].id = id}

\* C20 Add and delete of paths: after any sequence of store operations a
\* successful add_path(p) leaves exactly one row whose path is p (re-adding a
\* path replaces its row, it does not duplicate it) and no other row changes;
\* a successful delete_path_by_id(id) removes the row with that id and no
\* other.
C20_AddAndDelete ==
    /\ last.op = "add_path" /\ last.ok =>
          /\ Cardinality(RowsOfPath(paths, last.path)) = 1
          /\ SelectSeq(paths, LAMBDA r : r.path # last.path) =
                SelectSeq(last.pre, LAMBDA r : r.path # last.path)
    /\ last.op = "delete_path_by_id" /\ last.ok =>
          /\ RowsOfId(paths, last.id) = {}
          /\ Cardinality(RowsOfId(last.pre, last.id)) <= 1
          /\ paths = SelectSeq(last.pre, LAMBDA r : r.id # last.id)
          /\ Len(paths) = Len(last.pre) - Cardinality(RowsOfId(last.pre, last.id))

\* a path that was in the table, among others, has been added again
C20_Witness ==
    /\ last.op = "add_path" /\ last.ok
    /\ RowsOfPath(last.pre, last.path) # {}
    /\ Len(last.pre) >= 2
    /\ Len(paths) = Len(last.pre)

----------------------------------------------------------------------------
(* Claims about the view (SpecView) *)

tv == history_view
\* the length of the cache: the number of entries it holds
cachedLength == n_rows(tv)

\* C10 Selection bound: after every transition of the view (Home, Down, Up,
\* PageDown, PageUp, Backspace, a printable character, Ctrl+a, resize, in any
\* order) the selected row lies in [0, max(0, cachedLength - 1)], cachedLength
\* being the length of the cache after the transition.
C10_SelectionBound ==
    tv.selected.some => tv.selected.v \in 0..Max(0, cachedLength - 1)

\* the last event was an edit of the search string (Backspace, or a character
\* whose modifiers are not exactly CONTROL) and the process lives
SearchEdited ==
    /\ ~panicked
    /\ \/ last.op = "Backspace"
       \/ last.op = "Char" /\ last.mods # {"CONTROL"}

\* C11 Search edit resets selection: after a Backspace or a printable-character
\* event the selected row is row 0, whatever the selection and the scroll
\* position were before the event.
C11_SearchEditResetsSelection ==
    SearchEdited /\ tv.selected.some => tv.selected.v = 0

\* the last event was one of Down, Up, PageDown, PageUp
Moved == last.op \in {"Down", "Up", "PageDown", "PageUp"}
\* the cache held no entries when the last event arrived
CacheWasEmpty == ~last.pre.data_model.entries.some

EnterOnSelection ==
    /\ last.op = "Enter"
    /\ last.pre.data_model.entries.some
    /\ last.pre.data_model.entries.v # <<>>
    /\ last.pre.selected.some

\* C13 Commit: whenever the cache is non-empty and a row is selected, Enter
\* yields Print(stringify(cachedEntries[selection])) and the selection is a
\* valid index of cachedEntries (no out-of-range access), after any sequence
\* of search edits, scrolls and resizes.
C13_Commit ==
    EnterOnSelection =>
        /\ ~panicked
        /\ last.pre.selected.v < Len(last.pre.data_model.entries.v)
        /\ result = [kind |-> "Print",
                     v |-> stringify(last.pre.data_model.entries.v[last.pre.selected.v + 1])]

\* the last event ended with a draw of the view (Ctrl+q leaves before it)
Rendered ==
    /\ ~panicked /\ running
    /\ last.op \in {"run", "Home", "Down", "Up", "PageDown", "PageUp",
                    "Backspace", "Char", "Other", "Resize"}

\* visibleRows: the rows of the table at the last draw
visibleRows == tv.table_rows_count

\* C17 Viewport match: after every render (the initial draw, after each key
\* event, on resize) the length of the cache's window equals visibleRows, for
\* every height of the viewport and every content of the store.
C17_ViewportMatch ==
    Rendered => tv.data_model.length = visibleRows

\* C17 as amended: after every render in whose event no store call failed,
\* the length of the cache's window is at most visibleRows; and as long as no
\* store call has failed since the start, it is less than visibleRows only
\* when the store holds no more rows matching the search string from the
\* window's first row on (the window then holds all of them).
C17_ViewportMatchAmended ==
    /\ Rendered /\ ~last.failed => tv.data_model.length <= visibleRows
    /\ Rendered /\ ~hist.failed /\ tv.data_model.length < visibleRows =>
          tv.data_model.length =
              Len(list_paths(tv.data_model.first, visibleRows, tv.search_string))

\* a render after which the window is shorter than the table, without a
\* failure: the store has fewer matching rows than the table shows
C17_Witness ==
    /\ Rendered /\ ~hist.failed
    /\ visibleRows = MaxRows
    /\ tv.data_model.length > 0
    /\ tv.data_model.length < visibleRows

\* the last event was Home, Backspace or a character without the Control
\* modifier
ResetKey ==
    \/ last.op \in {"Home", "Backspace"}
    \/ last.op = "Char" /\ "CONTROL" \notin last.mods

\* the search string as the last event's edit leaves it
editedSearch ==
    IF last.op = "Backspace"
    THEN IF last.pre.search_string = <<>> THEN <<>>
         ELSE SubSeq(last.pre.search_string, 1, Len(last.pre.search_string) - 1)
    ELSE IF last.op = "Char" THEN last.pre.search_string \o <<last.c>>
    ELSE last.pre.search_string

\* a cache that is empty or whose window starts at 0
AtTop(d) == ~d.entries.some \/ d.first = 0

\* C21 Reset to top: Home, Backspace and printable-character events each call
\* cache.update(0, visibleRows, searchString, force = true) with the search
\* string as it is after the edit (Backspace on an empty string leaves it
\* empty); if the store call succeeds, afterwards the cache is empty or its
\* window starts at 0, whatever the scroll position was before.
C21_ResetToTop ==
    ResetKey =>
        /\ ~last.hpanic
        /\ last.handled.search_string = editedSearch
        /\ last.hucalls = <<[op |-> "update", first |-> 0, offset |-> 0,
                             length |-> last.pre.table_rows_count,
                             text |-> editedSearch, force |-> TRUE]>>
        /\ ~last.hfailed => AtTop(last.handled.data_model)
        /\ ~last.hfailed /\ ~panicked => AtTop(tv.data_model)

\* a character typed in a view scrolled away from the top: the store answers
\* and the window is back at 0
C21_Witness ==
    /\ last.op = "Char" /\ last.mods = {}
    /\ last.pre.data_model.entries.some /\ last.pre.data_model.first > 0
    /\ last.hcalls # <<>> /\ ~last.failed /\ ~panicked
    /\ tv.data_model.entries.some /\ tv.data_model.first = 0

\* the last event was the key `op`, at a view whose cache held entries and
\* that had a row selected
Scrolled(op) ==
    /\ last.op = op
    /\ last.pre.data_model.entries.some
    /\ last.pre.selected.some

\* the step of Down and Up: 10 with the jump modifier, else 1
step == IF "SHIFT" \in last.mods THEN JUMP_OFFSET ELSE 1
\* the number of cached entries before the event and after its handler
preLength == n_rows(last.pre)
handledLength == n_rows(last.handled)

\* the call cache.update_by_offset(offset, visibleRows, searchString)
ScrollCall(offset) ==
    [op |-> "update_to_offset", first |-> 0, offset |-> offset,
     length |-> last.pre.table_rows_count, text |-> last.pre.search_string,
     force |-> FALSE]

\* C22 Single-step scroll trigger: on Down (step 1) or Down+modifier (step 10)
\* with a non-empty cache, cache.update_by_offset(+step, visibleRows,
\* searchString) is called if and only if selection = cachedLength - 1 before
\* the event, and afterwards selection = min(oldSelection + step,
\* cachedLength - 1) with cachedLength taken after the update; Up is the mirror
\* with the trigger selection = 0 and the result max(oldSelection - step, 0).
C22_SingleStepScroll ==
    /\ Scrolled("Down") =>
          /\ ~last.hpanic
          /\ last.hucalls = IF last.pre.selected.v = preLength - 1
                            THEN <<ScrollCall(step)>> ELSE <<>>
          /\ last.handled.selected =
                Some(Min(last.pre.selected.v + step, handledLength - 1))
    /\ Scrolled("Up") =>
          /\ ~last.hpanic
          /\ last.hucalls = IF last.pre.selected.v = 0
                            THEN <<ScrollCall(0 - step)>> ELSE <<>>
          /\ last.handled.selected = Some(Max(last.pre.selected.v - step, 0))

\* visibleRows when the last event arrived
preRows == last.pre.table_rows_count

\* C23 Page scroll: on PageDown (resp. PageUp) with a non-empty cache,
\* cache.update_by_offset(+visibleRows, ...) (resp. -visibleRows) is called
\* whatever the selection is, the jump modifier does not change the step, and
\* afterwards the selection is min(oldSelection + visibleRows, cachedLength - 1)
\* (resp. max(oldSelection - visibleRows, 0)) and is a valid index of the cache
\* as it is after the update, also when the update replaced the window by a
\* shorter last page.
C23_PageScroll ==
    /\ Scrolled("PageDown") =>
          /\ ~last.hpanic
          /\ last.hucalls = <<ScrollCall(preRows)>>
          /\ last.handled.selected =
                Some(Min(last.pre.selected.v + preRows, handledLength - 1))
          /\ last.handled.selected.v \in 0..(handledLength - 1)
    /\ Scrolled("PageUp") =>
          /\ ~last.hpanic
          /\ last.hucalls = <<ScrollCall(0 - preRows)>>
          /\ last.handled.selected = Some(Max(last.pre.selected.v - preRows, 0))
          /\ last.handled.selected.v \in 0..(handledLength - 1)

\* the last event was Ctrl+a, Tab or a key outside the recognised set (a key
\* without an arm in run(), or Ctrl+ a character other than a and q)
NonMutatingKey ==
    \/ last.op \in {"Tab", "Other"}
    \/ last.op = "Char" /\ last.mods = {"CONTROL"} /\ last.c # "q"

\* C24 Non-mutating keys: Ctrl+a, Tab and every key outside the recognised set
\* leave the cache (entries and window), the selection and the search string
\* unchanged and cause no ListFunction call, in every reachable state, also
\* one where the cached page is shorter than the viewport.
C24_NonMutatingKeys ==
    NonMutatingKey =>
        /\ ~panicked
        /\ tv.data_model = last.pre.data_model
        /\ tv.selected = last.pre.selected
        /\ tv.search_string = last.pre.search_string
        /\ last.calls = <<>>

\* C25 Control-modified characters are never search input: a character key
\* event whose modifier set contains Control (alone or together with Shift or
\* Alt) is not appended to the search string and triggers no refetch; only
\* character events without the Control modifier are appended.
C25_ControlCharsNotSearchInput ==
    /\ last.op = "Char" /\ "CONTROL" \in last.mods =>
          /\ last.handled.search_string = last.pre.search_string
          /\ last.hucalls = <<>>
          /\ last.hcalls = <<>>
    /\ last.op = "Char" /\ "CONTROL" \notin last.mods =>
          last.handled.search_string = last.pre.search_string \o <<last.c>>

\* the store's answer for the window of the cache `d`
StoreAnswer(d) == list_paths(d.first, d.length, d.filter)

\* C29 Cache coherence: with a store whose content does not change and that
\* never fails, in every state reachable by key and resize events, a
\* non-empty cache holds exactly the store's answer for its own window: its
\* entries are the rows at positions [first, first + length) of the store's
\* ordered result set filtered by the window's filter.
C29_CacheCoherence ==
    ~hist.failed /\ tv.data_model.entries.some =>
        /\ Len(tv.data_model.entries.v) = tv.data_model.length
        /\ tv.data_model.entries.v = StoreAnswer(tv.data_model)

\* a key left a cache of at least one row whose window starts below the top
\* of a filtered result set, with no store failure so far
C29_Witness ==
    /\ last.op \in {"Down", "PageDown"}
    /\ ~hist.failed /\ ~panicked
    /\ tv.data_model.entries.some /\ tv.data_model.entries.v # <<>>
    /\ tv.data_model.first > 0
    /\ tv.data_model.filter # <<>>
    /\ last.calls # <<>>

\* C30 Filter consistency: if no store call fails, then after every key event
\* and its render the cache is either empty or was fetched under the current
\* search string (the window's filter equals the search string); rows fetched
\* under an older search string are never shown with a newer one.
C30_FilterConsistency ==
    ~hist.failed /\ last.op # "new" =>
        \/ ~tv.data_model.entries.some
        \/ tv.data_model.filter = tv.search_string

\* a character was typed over a cache fetched under another search string and
\* the store had no row for the new one: the cache is empty afterwards
C30_Witness ==
    /\ last.op \in {"Char", "Backspace"}
    /\ ~hist.failed /\ ~panicked
    /\ last.pre.data_model.entries.some
    /\ last.pre.data_model.filter # tv.search_string
    /\ ~tv.data_model.entries.some

----------------------------------------------------------------------------
(* Claims about the router (SpecGui) *)

\* the focused view has been entered again after Tab had left it
Reentered == last.op = "run" /\ ~panicked /\ hist.left[last.view].some

\* C14 View switch preserves state: when the user leaves a view with Tab and
\* later returns to it with further Tabs, the view's cache (entries and
\* window), search string and selection are exactly what they were when it was
\* left, whatever state it was left in (a non-zero selection included).
\* (Checked where the terminal has the height it had when the view was left.)
C14_ViewSwitchPreservesState ==
    Reentered /\ height = hist.left[last.view].v.height =>
        /\ focused.data_model = hist.left[last.view].v.tv.data_model
        /\ focused.search_string = hist.left[last.view].v.tv.search_string
        /\ focused.selected = hist.left[last.view].v.tv.selected

\* the outcome of the session agrees with the result the router matched
SessionOutcome ==
    /\ hist.returned =>
          /\ ~running
          /\ result.kind \in {"Quit", "Print"}
          /\ result.kind = "Quit" => hist.value = NoneSeq
          /\ result.kind = "Print" => hist.value = Some(result.v)
    /\ last.op = "match" =>
          /\ hist.returned <=> last.res.kind \in {"Quit", "Print"}
          /\ last.res.kind = "Next" => current_view # last.view

\* once the session has returned, no event is handled and the value stays
SessionOver ==
    hist.returned =>
        UNCHANGED <<storeVars, history_view, shortcut_view, current_view, view_state,
                    height, running, result, panicked, hist>>

\* C15 Session outcome: the router's loop ends exactly when the focused view
\* yields Quit or Print; Quit makes the session return no value, Print(v)
\* makes it return exactly v; a session returns at most one value and after
\* either outcome no further input event is processed; Next never ends the
\* session.
C15_SessionOutcome == []SessionOutcome /\ [][SessionOver]_vars

\* the session returned the path chosen in the second view entered
C15_Witness ==
    /\ hist.returned /\ result.kind = "Print"
    /\ current_view = "Shortcuts"
    /\ hist.value = Some(result.v)

\* C16 Shared toggle: there is one toggle flag for the session; after any
\* interleaving of Ctrl+a and Tab events its value, which the History
\* formatter and both views read, is the initial value flipped once per Ctrl+a
\* pressed in any view (a toggle made in one view persists in the other).
C16_SharedToggle == view_state = ~hist.odd

\* Ctrl+a was pressed in the Shortcuts view, and the History view has the
\* focus again with the flag flipped
C16_Witness ==
    /\ hist.odd /\ ~view_state
    /\ current_view = "History" /\ running
    /\ last.op = "run"
    /\ hist.left["History"].some

\* C27 Cyclic focus: the session starts focused on History; each Next moves
\* the focus to the other view (History -> Shortcuts -> History), so after n
\* Tab events the focus is on History iff n is even; at no moment are two
\* event loops running, and the one that runs is the focused view's.
C27_CyclicFocus ==
    /\ Cardinality(hist.loops) <= 1
    /\ running => hist.loops = {current_view}
    /\ ~running /\ ~panicked => hist.loops = {}
    /\ result = NoResult => (current_view = "History" <=> ~hist.tabs)
    /\ last.op = "match" /\ last.res.kind = "Next" =>
          current_view = IF last.view = "History" THEN "Shortcuts" ELSE "History"

\* after two Tabs the History view is running again, alone
C27_Witness ==
    /\ last.op = "run" /\ running
    /\ current_view = "History" /\ ~hist.tabs
    /\ hist.left["History"].some
    /\ hist.loops = {"History"}

----------------------------------------------------------------------------
(* Claims about the row formatter (SpecFormat) *)

\* the shortcut's target equals the path, or the path starts with target + "/"
Matches(shortcut, pathString) ==
    \/ pathString = shortcut.path
    \/ /\ Len(pathString) > Len(shortcut.path)
       /\ \A i \in 1..Len(shortcut.path) : pathString[i] = shortcut.path[i]
       /\ pathString[Len(shortcut.path) + 1] = "/"

\* the positions of the shortcuts of the listing that match the formatted path
matching == {i \in 1..Len(last.list) : Matches(last.list[i], last.path)}
matchingNonEmpty == {i \in matching : last.list[i].path # <<>>}

\* of a set of positions, the first one among those with the longest target
FirstLongest(S) ==
    CHOOSE i \in S : \A j \in S :
        \/ Len(last.list[i].path) > Len(last.list[j].path)
        \/ Len(last.list[i].path) = Len(last.list[j].path) /\ i <= j

\* the line "[name]rest" for the shortcut at position i
Substituted(i) ==
    << <<"[">>, last.list[i].name, <<"]">>,
       SubSeq(last.path, Len(last.list[i].path) + 1, Len(last.path)) >>

\* the home-directory fallback for the formatted path
HomeFallback ==
    IF hist.home.some /\ Matches([path |-> hist.home.v], last.path)
    THEN << <<"~">>, SubSeq(last.path, Len(hist.home.v) + 1, Len(last.path)) >>
    ELSE << last.path >>

\* C28 Longest-prefix shortcut substitution: for every path and shortcut
\* list, shorten_path substitutes a shortcut iff some shortcut's target equals
\* the path or the path starts with target + "/"; among the matching shortcuts
\* the one with the longest target is used, and among those of equal longest
\* length the first in list order; when the ToggleFlag is off or no shortcut
\* matches, the home-directory fallback is used instead.
C28_LongestPrefixSubstitution ==
    last.op = "rowify" =>
        IF last.state /\ matching # {}
        THEN last.res = Substituted(FirstLongest(matching))
        ELSE last.res = HomeFallback

\* C28 as amended: a shortcut is substituted iff some shortcut with a
\* non-empty target matches; a shortcut whose target is the empty string is
\* never used.
C28_LongestPrefixSubstitutionAmended ==
    last.op = "rowify" =>
        IF last.state /\ matchingNonEmpty # {}
        THEN last.res = Substituted(FirstLongest(matchingNonEmpty))
        ELSE last.res = HomeFallback

\* two shortcuts with the same target match, and a third with a shorter one:
\* the first of the two in list order is used
C28_Witness ==
    /\ last.op = "rowify" /\ last.state
    /\ \E i, j \in matchingNonEmpty :
          /\ i < j /\ last.list[i].path = last.list[j].path
          /\ \E n \in matchingNonEmpty : Len(last.list[n].path) < Len(last.list[i].path)
          /\ last.res = Substituted(i)

====
